---- MODULE Spec2Model ----
(***************************************************************************)
(* State-machine model of the unified caller agent (src/agent.py) and of   *)
(* the dispatch endpoint (src/agent_server.py).                            *)
(*                                                                         *)
(* One agent job is followed from its assignment to its end.  Every SDK    *)
(* call the job awaits is one action; the call is appended to `calls`      *)
(* when it is made and either returns or raises.  The telephony layer      *)
(* owns the participant attribute sip.callStatus and changes it at will;   *)
(* the wall clock advances on its own.                                     *)
(***************************************************************************)
EXTENDS Integers, Sequences, FiniteSets, TLC

VARIABLES
    pc,            \* position of the job's task
    job_metadata,  \* ctx.job.metadata
    route,         \* branch taken by unified_entrypoint
    phone_number,  \* local of outbound_entrypoint
    callStatus,    \* participant.attributes["sip.callStatus"], owned by telephony
    status,        \* local `status` of the polling loop (last value read)
    now,           \* time.time(), in seconds
    start_time,    \* local `start_time` of the polling loop
    calls,         \* SDK calls made by the job, in order
    error,         \* exception that ended the job, "" if none
    server_pc,     \* position of the HTTP server
    RUN_MAIN,      \* os.getenv("RUN_MAIN") of the server process
    req,           \* request body being handled
    spawned,       \* subprocess.run invocations made for the current request
    cmd_metadata,  \* --metadata argument of the last spawned command
    process,       \* how the process spawned for the current request ended
    response,      \* response to the current request
    handled        \* requests answered so far

agent_vars == <<pc, job_metadata, route, phone_number, callStatus, status,
                now, start_time, calls, error>>
server_vars == <<server_pc, RUN_MAIN, req, spawned, cmd_metadata, process,
                 response, handled>>
vars == <<pc, job_metadata, route, phone_number, callStatus, status,
          now, start_time, calls, error,
          server_pc, RUN_MAIN, req, spawned, cmd_metadata, process, response,
          handled>>

----------------------------------------------------------------------------
(* Bounds of the model *)

\* seconds the clock may advance before the polling loop is entered
MaxStart == 2
\* seconds the clock keeps advancing after the loop's elapsed time passed timeout
MaxOver == 2
\* requests the HTTP server answers
MaxRequests == 3

(* Program constants *)

\* src/agent.py:206  timeout = 30
timeout == 30

----------------------------------------------------------------------------
(* Python values *)

NoneVal == "<None>"
Unbound == "<unbound>"
Absent == "<absent>"

\* Python truthiness of a str-or-None value
Falsy(x) == x \in {NoneVal, ""}

Phone == "+15551234567"

\* Values ctx.job.metadata takes in the model.
MetadataInputs ==
    { NoneVal, "", "   ", "{}", "{not-json",
      "{\"phone_number\": \"+15551234567\"}",
      "{\"phone_number\": \"\"}",
      "{\"foo\": \"bar\"}",
      "[\"phone_number\"]",
      "null" }

\* A parsed JSON value: its Python type, the key/value pairs of a dict, the
\* elements of a list.
Dict(pairs) == [kind |-> "dict", pairs |-> pairs, elems |-> {}]
List(elems) == [kind |-> "list", pairs |-> {}, elems |-> elems]
Null == [kind |-> "NoneType", pairs |-> {}, elems |-> {}]

\* json.loads on the strings of MetadataInputs: ok = FALSE is JSONDecodeError.
json_loads(s) ==
    CASE s = "{}" -> [ok |-> TRUE, v |-> Dict({})]
      [] s = "{\"phone_number\": \"+15551234567\"}" ->
            [ok |-> TRUE, v |-> Dict({<<"phone_number", Phone>>})]
      [] s = "{\"phone_number\": \"\"}" ->
            [ok |-> TRUE, v |-> Dict({<<"phone_number", "">>})]
      [] s = "{\"foo\": \"bar\"}" ->
            [ok |-> TRUE, v |-> Dict({<<"foo", "bar">>})]
      [] s = "[\"phone_number\"]" -> [ok |-> TRUE, v |-> List({"phone_number"})]
      [] s = "null" -> [ok |-> TRUE, v |-> Null]
      [] OTHER -> [ok |-> FALSE, v |-> Null]

\* json.dumps({"phone_number": p}) for the phone numbers of the model
json_dumps_phone(p) ==
    IF p = "" THEN "{\"phone_number\": \"\"}"
    ELSE "{\"phone_number\": \"" \o p \o "\"}"

\* str.strip() leaves nothing
IsBlank(s) == s \in {"", "   "}

\* Python `key in v`: "TypeError" when v is not a container
Contains(v, key) ==
    CASE v.kind = "dict" -> IF \E p \in v.pairs : p[1] = key THEN "true" ELSE "false"
      [] v.kind = "list" -> IF key \in v.elems THEN "true" ELSE "false"
      [] OTHER -> "TypeError"

\* Python `v.get(key)`: "AttributeError" when v is not a dict
Get(v, key) ==
    CASE v.kind = "dict" ->
            IF \E p \in v.pairs : p[1] = key
            THEN (CHOOSE p \in v.pairs : p[1] = key)[2]
            ELSE NoneVal
      [] OTHER -> "AttributeError"

----------------------------------------------------------------------------
(* Pure parts of the entrypoints *)

\* unified_entrypoint's classification of the job metadata:
\* "outbound", "inbound", or the exception the membership test raises.
unified_route(m) ==
    LET metadata == IF Falsy(m) THEN "{}" ELSE m
        parsed == json_loads(metadata)
        metadata_dict == IF parsed.ok THEN parsed.v ELSE Dict({})
        has == Contains(metadata_dict, "phone_number")
    IN  CASE has = "true" -> "outbound"
          [] has = "false" -> "inbound"
          [] OTHER -> has

\* Mutant of outbound_validate: the check `if not phone_number` is dropped.
outbound_validate_unchecked(m) ==
    LET raw_meta == IF Falsy(m) THEN "" ELSE m
        parsed == json_loads(raw_meta)
    IN  IF IsBlank(raw_meta) \/ ~parsed.ok
        THEN [err |-> "ValueError", phone |-> NoneVal]
        ELSE LET got == Get(parsed.v, "phone_number")
             IN  IF got = "AttributeError"
                 THEN [err |-> "AttributeError", phone |-> NoneVal]
                 ELSE [err |-> "", phone |-> got]

\* outbound_entrypoint's metadata normalisation and phone_number check:
\* err is the exception raised ("" if none), phone the number to dial.
outbound_validate(m) ==
    LET raw_meta == IF Falsy(m) THEN "" ELSE m
        parsed == json_loads(raw_meta)
    IN  IF IsBlank(raw_meta)
        THEN [err |-> "ValueError", phone |-> NoneVal]
        ELSE IF ~parsed.ok
        THEN [err |-> "ValueError", phone |-> NoneVal]
        ELSE LET got == Get(parsed.v, "phone_number")
             IN  IF got = "AttributeError"
                 THEN [err |-> "AttributeError", phone |-> NoneVal]
                 ELSE IF Falsy(got)
                 THEN [err |-> "ValueError", phone |-> got]
                 ELSE [err |-> "", phone |-> got]

\* Mutant of poll_decision: "rejected" is left out of the list of final statuses.
poll_decision_rejected_ignored(st, elapsed) ==
    IF st = "active" THEN "active"
    ELSE IF st \in {"terminated"} THEN "ended"
    ELSE IF st = "ringing" /\ elapsed > timeout THEN "ringing_too_long"
    ELSE "continue"

\* What one iteration of the polling loop decides from the status it read and
\* the elapsed time: the break it takes, or "continue" (sleep and poll again).
poll_decision(st, elapsed) ==
    IF st = "active" THEN "active"
    ELSE IF st \in {"terminated", "rejected"} THEN "ended"
    ELSE IF st = "ringing" /\ elapsed > timeout THEN "ringing_too_long"
    ELSE "continue"

----------------------------------------------------------------------------
(* The agent job *)

Statuses == {Absent, "dialing", "ringing", "active", "terminated", "rejected"}

Raise(e) == /\ pc' = "raised"
            /\ error' = e

\* the worker hands a job with metadata m to the entrypoint
JobAssigned(m) ==
    /\ pc = "idle"
    /\ job_metadata' = m
    /\ pc' = "unified"
    /\ UNCHANGED <<route, phone_number, callStatus, status, now, start_time,
                   calls, error>>
    /\ UNCHANGED server_vars

unified_entrypoint ==
    /\ pc = "unified"
    /\ LET r == unified_route(job_metadata)
       IN  CASE r = "outbound" -> /\ pc' = "out_connect"
                                  /\ route' = r
                                  /\ error' = error
             [] r = "inbound" -> /\ pc' = "in_connect"
                                 /\ route' = r
                                 /\ error' = error
             [] OTHER -> /\ Raise(r)
                         /\ route' = route
    /\ UNCHANGED <<job_metadata, phone_number, callStatus, status, now,
                   start_time, calls>>
    /\ UNCHANGED server_vars

\* await ctx.connect()
outbound_connect(ok) ==
    /\ pc = "out_connect"
    /\ calls' = Append(calls, "connect")
    /\ IF ok THEN pc' = "out_validate" /\ error' = error
             ELSE Raise("ConnectError")
    /\ UNCHANGED <<job_metadata, route, phone_number, callStatus, status, now,
                   start_time>>
    /\ UNCHANGED server_vars

\* metadata normalisation and the phone_number check
outbound_metadata ==
    /\ pc = "out_validate"
    /\ LET v == outbound_validate(job_metadata)
       IN  IF v.err = ""
           THEN /\ phone_number' = v.phone
                /\ pc' = "out_create"
                /\ error' = error
           ELSE /\ phone_number' = phone_number
                /\ Raise(v.err)
    /\ UNCHANGED <<job_metadata, route, callStatus, status, now, start_time, calls>>
    /\ UNCHANGED server_vars

\* await ctx.api.sip.create_sip_participant(...)
create_sip_participant(ok) ==
    /\ pc = "out_create"
    /\ calls' = Append(calls, "create_sip_participant")
    /\ IF ok THEN pc' = "out_wait" /\ error' = error
             ELSE Raise("SipError")
    /\ UNCHANGED <<job_metadata, route, phone_number, callStatus, status, now,
                   start_time>>
    /\ UNCHANGED server_vars

\* await ctx.wait_for_participant(identity=user_identity); on return the loop's
\* start_time is taken
outbound_wait_for_participant(ok) ==
    /\ pc = "out_wait"
    /\ calls' = Append(calls, "wait_for_participant")
    /\ IF ok THEN /\ pc' = "poll"
                  /\ start_time' = now
                  /\ error' = error
             ELSE /\ Raise("WaitError")
                  /\ start_time' = start_time
    /\ UNCHANGED <<job_metadata, route, phone_number, callStatus, status, now>>
    /\ UNCHANGED server_vars

\* One iteration of `while True` up to its break or its sleep.  The read of the
\* participant's attributes either returns the current value or raises; nothing
\* in the loop catches.
poll_iteration(read_ok) ==
    /\ pc = "poll"
    /\ IF read_ok
       THEN /\ status' = callStatus
            /\ pc' = IF poll_decision(callStatus, now - start_time) = "continue"
                     THEN "sleep" ELSE "out_session"
            /\ error' = error
       ELSE /\ status' = status
            /\ Raise("ReadError")
    /\ UNCHANGED <<job_metadata, route, phone_number, callStatus, now,
                   start_time, calls>>
    /\ UNCHANGED server_vars

\* await asyncio.sleep(0.1)
poll_sleep ==
    /\ pc = "sleep"
    /\ pc' = "poll"
    /\ UNCHANGED <<job_metadata, route, phone_number, callStatus, status, now,
                   start_time, calls, error>>
    /\ UNCHANGED server_vars

\* One awaited call of the job at position `at`: it is recorded, then it returns
\* (the job moves to `next`) or raises (the job ends with `err`).
Call(at, name, next, err, ok) ==
    /\ pc = at
    /\ calls' = Append(calls, name)
    /\ IF ok THEN pc' = next /\ error' = error
             ELSE Raise(err)
    /\ UNCHANGED <<job_metadata, route, phone_number, callStatus, status, now,
                   start_time>>
    /\ UNCHANGED server_vars

\* session = AgentSession(...) after the loop, whatever break ended it
outbound_AgentSession(ok) ==
    /\ route = "outbound"
    /\ Call("out_session", "AgentSession", "out_start", "SessionError", ok)

\* await session.start(...)
outbound_session_start(ok) ==
    /\ route = "outbound"
    /\ Call("out_start", "session.start", "out_reply", "SessionError", ok)

\* await session.generate_reply(...)
outbound_generate_reply(ok) ==
    /\ route = "outbound"
    /\ Call("out_reply", "generate_reply", "done", "SessionError", ok)

\* await ctx.connect()
inbound_connect(ok) ==
    /\ route = "inbound"
    /\ Call("in_connect", "connect", "in_wait", "ConnectError", ok)

\* Mutant of inbound_wait_for_participant: the except clause logs the error
\* and does not re-raise.
inbound_wait_swallowed(ok) ==
    /\ route = "inbound"
    /\ pc = "in_wait"
    /\ calls' = Append(calls, "wait_for_participant")
    /\ pc' = "in_session"
    /\ error' = IF ok THEN error ELSE "WaitError"
    /\ UNCHANGED <<job_metadata, route, phone_number, callStatus, status, now,
                   start_time>>
    /\ UNCHANGED server_vars

\* await ctx.wait_for_participant(); the except clause logs and re-raises
inbound_wait_for_participant(ok) ==
    /\ route = "inbound"
    /\ Call("in_wait", "wait_for_participant", "in_session", "WaitError", ok)

inbound_AgentSession(ok) ==
    /\ route = "inbound"
    /\ Call("in_session", "AgentSession", "in_start", "SessionError", ok)

inbound_session_start(ok) ==
    /\ route = "inbound"
    /\ Call("in_start", "session.start", "in_reply", "SessionError", ok)

inbound_generate_reply(ok) ==
    /\ route = "inbound"
    /\ Call("in_reply", "generate_reply", "done", "SessionError", ok)

----------------------------------------------------------------------------
(* The environment of the job *)

\* positions at which the SIP participant exists
ParticipantLive ==
    pc \in {"out_wait", "poll", "sleep", "out_session", "out_start", "out_reply",
            "in_session", "in_start", "in_reply"}

InLoop == pc \in {"poll", "sleep"}

\* the telephony layer sets sip.callStatus
StatusChange(s) ==
    /\ ParticipantLive
    /\ s # callStatus
    /\ callStatus' = s
    /\ UNCHANGED <<pc, job_metadata, route, phone_number, status, now,
                   start_time, calls, error>>
    /\ UNCHANGED server_vars

\* one second passes
Tick ==
    /\ \/ pc = "out_wait" /\ now < MaxStart
       \/ InLoop /\ now - start_time < timeout + MaxOver
    /\ now' = now + 1
    /\ UNCHANGED <<pc, job_metadata, route, phone_number, callStatus, status,
                   start_time, calls, error>>
    /\ UNCHANGED server_vars

----------------------------------------------------------------------------
(* The dispatch endpoint *)

PhoneInputs == {"", Phone}
RoomInputs == {"", "room-1"}
RunMainInputs == {NoneVal, "", "true", "false"}

\* JSON bodies of POST /start_call: any subset of the two fields
Bodies ==
    { [k \in {} |-> ""] } \cup
    { [room |-> r] : r \in RoomInputs } \cup
    { [phone_number |-> p] : p \in PhoneInputs } \cup
    { [room |-> r, phone_number |-> p] : r \in RoomInputs, p \in PhoneInputs }

\* CallRequest(BaseModel): both fields are required strings
CallRequest_valid(body) == {"room", "phone_number"} \subseteq DOMAIN body

NoResponse == [code |-> 0, message |-> "", output |-> ""]
NoRequest == [room |-> NoneVal, phone_number |-> NoneVal]

\* ways the external lk process can end
ProcessOutcomes == {"exit0", "exit1", "oserror"}

\* Mutant of skip_reload: the comparison with "true" is dropped.
skip_reload_whenever_set == ~Falsy(RUN_MAIN)

\* the guard at the head of start_call
skip_reload == ~Falsy(RUN_MAIN) /\ RUN_MAIN # "true"

\* the server process starts with its environment
ServerStart(rm) ==
    /\ server_pc = "boot"
    /\ RUN_MAIN' = rm
    /\ server_pc' = "idle"
    /\ UNCHANGED <<req, spawned, cmd_metadata, process, response, handled>>
    /\ UNCHANGED agent_vars

\* POST /start_call arrives; a body that is no CallRequest is answered 422
\* without the handler being called
ReceiveRequest(body) ==
    /\ server_pc \in {"idle", "responded"}
    /\ handled < MaxRequests
    /\ spawned' = 0
    /\ process' = "none"
    /\ IF CallRequest_valid(body)
       THEN /\ req' = body
            /\ server_pc' = "handler"
            /\ response' = NoResponse
            /\ handled' = handled
       ELSE /\ req' = [room |-> IF "room" \in DOMAIN body THEN body.room ELSE NoneVal,
                       phone_number |-> IF "phone_number" \in DOMAIN body
                                        THEN body.phone_number ELSE NoneVal]
            /\ server_pc' = "responded"
            /\ response' = [code |-> 422, message |-> "validation error", output |-> ""]
            /\ handled' = handled + 1
    /\ UNCHANGED <<RUN_MAIN, cmd_metadata>>
    /\ UNCHANGED agent_vars

\* the handler, run to its response
start_call(outcome) ==
    /\ server_pc = "handler"
    /\ IF skip_reload
       THEN /\ response' = [code |-> 200, message |-> "Skipping due to reload process",
                            output |-> ""]
            /\ UNCHANGED <<spawned, cmd_metadata, process>>
       ELSE /\ spawned' = spawned + 1
            /\ process' = outcome
            /\ cmd_metadata' = json_dumps_phone(req.phone_number)
            /\ response' =
                 IF outcome = "exit0"
                 THEN [code |-> 200, message |-> "Call dispatched successfully",
                       output |-> "stdout"]
                 ELSE [code |-> 500,
                       message |-> "Dispatch failed: " \o
                                   (IF outcome = "exit1" THEN "stderr" ELSE "oserror"),
                       output |-> ""]
    /\ server_pc' = "responded"
    /\ handled' = handled + 1
    /\ UNCHANGED <<RUN_MAIN, req>>
    /\ UNCHANGED agent_vars

----------------------------------------------------------------------------
(* Specifications *)

Init ==
    /\ pc = "idle"
    /\ job_metadata = NoneVal
    /\ route = "none"
    /\ phone_number = Unbound
    /\ callStatus = Absent
    /\ status = Unbound
    /\ now = 0
    /\ start_time = 0
    /\ calls = <<>>
    /\ error = ""
    /\ server_pc = "boot"
    /\ RUN_MAIN = NoneVal
    /\ req = NoRequest
    /\ spawned = 0
    /\ cmd_metadata = ""
    /\ process = "none"
    /\ response = NoResponse
    /\ handled = 0

\* steps of the job's task
JobStep ==
    \/ unified_entrypoint
    \/ \E ok \in BOOLEAN : outbound_connect(ok)
    \/ outbound_metadata
    \/ \E ok \in BOOLEAN : create_sip_participant(ok)
    \/ \E ok \in BOOLEAN : outbound_wait_for_participant(ok)
    \/ \E read_ok \in BOOLEAN : poll_iteration(read_ok)
    \/ poll_sleep
    \/ \E ok \in BOOLEAN : outbound_AgentSession(ok)
    \/ \E ok \in BOOLEAN : outbound_session_start(ok)
    \/ \E ok \in BOOLEAN : outbound_generate_reply(ok)
    \/ \E ok \in BOOLEAN : inbound_connect(ok)
    \/ \E ok \in BOOLEAN : inbound_wait_for_participant(ok)
    \/ \E ok \in BOOLEAN : inbound_AgentSession(ok)
    \/ \E ok \in BOOLEAN : inbound_session_start(ok)
    \/ \E ok \in BOOLEAN : inbound_generate_reply(ok)

Next ==
    \/ \E m \in MetadataInputs : JobAssigned(m)
    \/ JobStep
    \/ \E s \in Statuses : StatusChange(s)
    \/ Tick

Spec == Init /\ [][Next]_vars

\* The event loop runs the job's task whenever it can take a step, and the wall
\* clock advances; the telephony layer owes nothing.
FairSpec == Spec /\ WF_vars(JobStep) /\ WF_vars(Tick)

ServerNext ==
    \/ \E rm \in RunMainInputs : ServerStart(rm)
    \/ \E body \in Bodies : ReceiveRequest(body)
    \/ \E outcome \in ProcessOutcomes : start_call(outcome)

ServerSpec == Init /\ [][ServerNext]_vars

----------------------------------------------------------------------------
(* Vocabulary of the properties *)

Made(c) == \E i \in DOMAIN calls : calls[i] = c
Count(c) == Cardinality({i \in DOMAIN calls : calls[i] = c})
IsPrefix(a, b) == Len(a) <= Len(b) /\ \A i \in DOMAIN a : a[i] = b[i]

SessionConstructed == Made("AgentSession")
SessionStarted == Made("session.start")

FinalStatuses == {"active", "terminated", "rejected"}

\* the job is past the polling loop, having left it by a break
LoopBroken ==
    /\ route = "outbound"
    /\ \/ pc \in {"out_session", "out_start", "out_reply", "done"}
       \/ pc = "raised" /\ error = "SessionError"

\* the job has been routed
Routed == pc \notin {"idle", "unified"}

\* the metadata parses to a mapping whose phone_number is present and non-empty
HasNonEmptyPhone(m) ==
    LET parsed == json_loads(m)
    IN  /\ ~Falsy(m)
        /\ parsed.ok
        /\ parsed.v.kind = "dict"
        /\ \E p \in parsed.v.pairs : p[1] = "phone_number" /\ ~Falsy(p[2])

MetadataErrors == {"TypeError", "ValueError", "AttributeError"}

OutboundOrder ==
    <<"connect", "create_sip_participant", "wait_for_participant",
      "AgentSession", "session.start", "generate_reply">>

InboundOrder ==
    <<"connect", "wait_for_participant", "AgentSession", "session.start",
      "generate_reply">>

\* the request passed validation with a non-empty room and phone number
ValidRequest ==
    /\ response.code # 422
    /\ ~Falsy(req.room)
    /\ ~Falsy(req.phone_number)

----------------------------------------------------------------------------
(* Properties *)

\* C1: on the outbound path a conversation session is constructed and started
\* if and only if the polling loop ended on status "active"; after
\* "terminated", "rejected" or the ringing timeout no session is constructed.
C1_SessionIffActive ==
    route = "outbound" =>
        /\ SessionConstructed => status = "active"
        /\ SessionStarted => status = "active"
        /\ (pc = "done" /\ status = "active") => SessionConstructed /\ SessionStarted

\* C2: when the loop ends because the call rang longer than the timeout, no
\* session is constructed and the job has requested deletion of the room by the
\* time it ends.
C2_RingTimeoutCleansUp ==
    (LoopBroken /\ status = "ringing") =>
        /\ ~SessionConstructed
        /\ pc \in {"done", "raised"} => Made("delete_room")

\* C3: once the elapsed time exceeds the timeout the polling loop eventually
\* exits, whatever values sip.callStatus takes (absent or unknown included).
C3_LoopTerminates ==
    (InLoop /\ now - start_time > timeout) ~> ~InLoop

\* C4: the job is routed to the outbound flow exactly when its metadata parses
\* to a mapping with a non-empty phone_number; every other metadata is routed
\* to the inbound flow and makes the job raise nothing.
C4_RouteIffNonEmptyPhone ==
    /\ Routed /\ HasNonEmptyPhone(job_metadata) => route = "outbound"
    /\ Routed /\ ~HasNonEmptyPhone(job_metadata) =>
          route = "inbound" /\ error \notin MetadataErrors

\* C5: a request whose phone_number is missing or empty is answered with an
\* error and no dispatch process is spawned for it.
C5_EmptyPhoneRejected ==
    (server_pc = "responded" /\ Falsy(req.phone_number)) =>
        response.code >= 400 /\ spawned = 0

\* C6 (as claimed): every valid request spawns exactly one dispatch process,
\* whatever the process environment.
C6_ExactlyOneSpawn ==
    (server_pc = "responded" /\ ValidRequest) => spawned = 1

\* C6 (amended): a valid request spawns no process and is answered with the
\* skip message when RUN_MAIN is set, non-empty and not "true"; otherwise it
\* spawns exactly one process and is answered 200 with the captured output if
\* the process exited 0, and 500 "Dispatch failed: ..." if it exited nonzero or
\* could not be run.
C6_OneSpawnUnlessReload ==
    (server_pc = "responded" /\ ValidRequest) =>
        IF ~Falsy(RUN_MAIN) /\ RUN_MAIN # "true"
        THEN /\ spawned = 0
             /\ process = "none"
             /\ response = [code |-> 200, message |-> "Skipping due to reload process",
                            output |-> ""]
        ELSE /\ spawned = 1
             /\ cmd_metadata = "{\"phone_number\": \"+15551234567\"}"
             /\ process = "exit0" =>
                   response = [code |-> 200, message |-> "Call dispatched successfully",
                               output |-> "stdout"]
             /\ process = "exit1" =>
                   response = [code |-> 500, message |-> "Dispatch failed: stderr",
                               output |-> ""]
             /\ process = "oserror" =>
                   response = [code |-> 500, message |-> "Dispatch failed: oserror",
                               output |-> ""]
             /\ process # "none"

C6_Witness ==
    /\ server_pc = "responded"
    /\ ValidRequest
    /\ RUN_MAIN = "true"
    /\ handled = 2
    /\ spawned = 1
    /\ process = "exit1"
    /\ response.code = 500

\* C7: on the inbound path the calls are connect, wait_for_participant,
\* AgentSession, session.start, generate_reply in this order, so the session is
\* constructed right after the participant joined; sip.callStatus is never read
\* and the polling loop is never entered; a failed wait ends the job with the
\* error and without a session.  Metadata {} takes this path.
C7_InboundNoPolling ==
    /\ (Routed /\ job_metadata = "{}") => route = "inbound"
    /\ route = "inbound" =>
          /\ IsPrefix(calls, InboundOrder)
          /\ status = Unbound
          /\ ~InLoop
          /\ pc = "in_session" => calls = <<"connect", "wait_for_participant">>
          /\ error = "WaitError" => pc = "raised" /\ ~SessionConstructed
          /\ SessionConstructed => error \notin {"WaitError", "ConnectError"}

C7_Witness ==
    /\ route = "inbound"
    /\ job_metadata = "{}"
    /\ pc = "done"
    /\ callStatus = "active"
    /\ SessionStarted

\* C8: a failed read of the call status does not abort the job.
C8_ReadFailureCaught ==
    ~(pc = "raised" /\ error = "ReadError")

\* C9: the iteration that reads "active", "terminated" or "rejected" leaves the
\* loop at once, without sleeping; the loop is left by a break only on such a
\* status or on "ringing" past the timeout; once the loop is left the status is
\* not read again and the loop is not re-entered, whatever sip.callStatus
\* becomes.
C9_FirstFinalReadIsLast ==
    [][ /\ (pc = "poll" /\ status' \in FinalStatuses) => pc' = "out_session"
        /\ (pc = "poll" /\ pc' = "out_session") =>
              \/ status' \in FinalStatuses
              \/ status' = "ringing" /\ now - start_time > timeout
        /\ InLoop => status \notin FinalStatuses
        /\ LoopBroken => status' = status /\ ~InLoop'
      ]_vars

C9_Witness ==
    /\ LoopBroken
    /\ pc = "done"
    /\ status = "active"
    /\ callStatus = "terminated"

\* C10: on the outbound path the calls are made in the order connect,
\* create_sip_participant, wait_for_participant, then the session calls; the
\* SIP participant is created at most once and only for a non-empty
\* phone_number; the polling loop is entered only after creation and join both
\* succeeded; an invalid phone_number or a failure of either step ends the job
\* with the error, with no status read and no session.
C10_OutboundOrder ==
    route = "outbound" =>
        /\ IsPrefix(calls, OutboundOrder)
        /\ Count("create_sip_participant") <= 1
        /\ Made("create_sip_participant") => ~Falsy(phone_number) /\ phone_number # Unbound
        /\ (InLoop \/ status # Unbound) =>
              /\ Len(calls) >= 3
              /\ calls[2] = "create_sip_participant"
              /\ calls[3] = "wait_for_participant"
              /\ error \notin {"SipError", "WaitError"} \cup MetadataErrors
        /\ error \in {"SipError", "WaitError"} \cup MetadataErrors =>
              /\ pc = "raised"
              /\ status = Unbound
              /\ ~SessionConstructed

C10_Witness ==
    /\ route = "outbound"
    /\ pc = "sleep"
    /\ status = "ringing"
    /\ phone_number = Phone
    /\ calls = <<"connect", "create_sip_participant", "wait_for_participant">>

====
